---- MODULE Spec2Model ----
(***************************************************************************)
(* wrmatch: a per-method registry of compact prefix tries (Router), the    *)
(* single-trie Pattern, and the redirect policy applied after a lookup     *)
(* miss.  Strings are sequences of one-character strings.                  *)
(***************************************************************************)
EXTENDS Integers, Sequences, FiniteSets, TLC

\* ------------------------------------------------------------------ bounds
\* Number of routes a Router or Pattern is filled with.
MaxRoutes == 2

\* ----------------------------------------------------------------- strings
Slash == "/"

Last(s) == s[Len(s)]

From(s, i) == SubSeq(s, i, Len(s))

IsPrefix(p, s) == Len(p) <= Len(s) /\ SubSeq(s, 1, Len(p)) = p

HasSuffixSlash(s) == Len(s) > 0 /\ Last(s) = Slash

ToLower(c) ==
  CASE c = "A" -> "a"
    [] c = "B" -> "b"
    [] c = "D" -> "d"
    [] c = "P" -> "p"
    [] OTHER -> c

Lower(s) == [i \in 1..Len(s) |-> ToLower(s[i])]

EqualFold(a, b) == Lower(a) = Lower(b)

\* Number of leading bytes of s that are not '/'.
RECURSIVE SegmentEnd(_)
SegmentEnd(s) ==
  IF s = <<>> \/ Head(s) = Slash THEN 0 ELSE 1 + SegmentEnd(Tail(s))

RECURSIVE longestCommonPrefix(_, _)
longestCommonPrefix(a, b) ==
  IF a = <<>> \/ b = <<>> \/ Head(a) # Head(b) THEN 0
  ELSE 1 + longestCommonPrefix(Tail(a), Tail(b))

RECURSIVE countParams(_)
countParams(path) ==
  IF path = <<>> THEN 0
  ELSE (IF Head(path) \in {":", "*"} THEN 1 ELSE 0) + countParams(Tail(path))

\* ------------------------------------------------------------------ values
\* A stored value: nil, a plain value, or the matchValue wrapper.
NilValue == [wrapped |-> FALSE, matchedPath |-> <<>>, Value |-> <<>>]

PlainValue(v) == [wrapped |-> FALSE, matchedPath |-> <<>>, Value |-> v]

matchValue(path, v) == [wrapped |-> TRUE, matchedPath |-> path, Value |-> v]

MatchedRoutePathParam == <<"$">>

Param(k, v) == [Key |-> k, Value |-> v]

\* --------------------------------------------------------------- trie node
NewNode ==
  [segment |-> <<>>, kind |-> "static", value |-> NilValue, priority |-> 0,
   children |-> <<>>, hasWildcardChild |-> FALSE]

\* The byte under which a child is found from its parent.
IndexByte(c) == IF c.segment = <<>> THEN Slash ELSE c.segment[1]

\* Position of the child found under byte b, 0 when there is none.
ChildAt(n, b) ==
  LET hit == {k \in 1..Len(n.children) : IndexByte(n.children[k]) = b}
  IN IF hit = {} THEN 0 ELSE CHOOSE k \in hit : \A j \in hit : k <= j

\* First wildcard of path: its start (0 when none), its text up to the next
\* '/', and whether its name is free of ':' and '*'.
findWildcard(path) ==
  LET starts == {i \in 1..Len(path) : path[i] \in {":", "*"}}
  IN IF starts = {} THEN [i |-> 0, wildcard |-> <<>>, valid |-> FALSE]
     ELSE LET s == CHOOSE i \in starts : \A j \in starts : i <= j
              len == 1 + SegmentEnd(From(path, s + 1))
              w == SubSeq(path, s, s + len - 1)
          IN [i |-> s, wildcard |-> w,
              valid |-> \A k \in 2..Len(w) : w[k] \notin {":", "*"}]

Conflict == [ok |-> FALSE, n |-> NewNode]

Inserted(n) == [ok |-> TRUE, n |-> n]

\* Fill the fresh (or childless) node n with the remainder of a pattern.
RECURSIVE insertChild(_, _, _)
insertChild(n, path, value) ==
  LET w == findWildcard(path)
  IN IF w.i = 0 THEN Inserted([n EXCEPT !.segment = path, !.value = value])
     ELSE IF ~w.valid \/ Len(w.wildcard) < 2 \/ Len(n.children) > 0
       THEN Conflict
     ELSE IF w.wildcard[1] = ":"
       THEN LET rest == From(path, w.i + Len(w.wildcard))
                leaf == [NewNode EXCEPT !.kind = "param",
                                        !.segment = w.wildcard,
                                        !.priority = 1]
                sub == insertChild([NewNode EXCEPT !.priority = 1], rest, value)
                child == IF rest = <<>> THEN [leaf EXCEPT !.value = value]
                         ELSE [leaf EXCEPT !.children = <<sub.n>>]
            IN IF rest # <<>> /\ ~sub.ok THEN Conflict
               ELSE Inserted([n EXCEPT
                      !.segment = IF w.i > 1 THEN SubSeq(path, 1, w.i - 1) ELSE @,
                      !.hasWildcardChild = TRUE,
                      !.children = <<child>>])
     ELSE IF \/ w.i + Len(w.wildcard) - 1 # Len(path)
             \/ HasSuffixSlash(n.segment)
             \/ w.i < 2
             \/ path[w.i - 1] # Slash
       THEN Conflict
     ELSE LET leaf == [NewNode EXCEPT !.kind = "catchAll",
                                      !.segment = From(path, w.i - 1),
                                      !.value = value,
                                      !.priority = 1]
              mid == [NewNode EXCEPT !.kind = "catchAll",
                                     !.hasWildcardChild = TRUE,
                                     !.priority = 1,
                                     !.children = <<leaf>>]
          IN Inserted([n EXCEPT !.segment = SubSeq(path, 1, w.i - 2),
                                !.children = <<mid>>])

\* Move the child at pos towards the front while its priority is larger.
RECURSIVE Bubble(_, _)
Bubble(cs, pos) ==
  IF pos > 1 /\ cs[pos - 1].priority < cs[pos].priority
  THEN Bubble([cs EXCEPT ![pos - 1] = cs[pos], ![pos] = cs[pos - 1]], pos - 1)
  ELSE cs

\* Split n at byte i of its segment: the suffix, value and children move
\* into a new child, n keeps the common prefix.
SplitNode(n, i) ==
  [n EXCEPT !.segment = SubSeq(n.segment, 1, i),
            !.value = NilValue,
            !.hasWildcardChild = FALSE,
            !.children = <<[n EXCEPT !.segment = From(n.segment, i + 1),
                                     !.kind = "static",
                                     !.priority = n.priority - 1]>>]

\* Descend from n (priority already incremented) with the rest of a pattern.
RECURSIVE Walk(_, _, _)
Walk(n0, path0, value) ==
  LET i == longestCommonPrefix(path0, n0.segment)
      n == IF i < Len(n0.segment) THEN SplitNode(n0, i) ELSE n0
      path == From(path0, i + 1)
      Descend(pos) ==
        LET c == [n.children[pos] EXCEPT !.priority = @ + 1]
            r == Walk(c, path, value)
        IN IF ~r.ok THEN Conflict
           ELSE Inserted([n EXCEPT
                  !.children = Bubble([n.children EXCEPT ![pos] = r.n], pos)])
  IN IF i = Len(path0)
       THEN IF n.value # NilValue THEN Conflict
            ELSE Inserted([n EXCEPT !.value = value])
     ELSE IF n.hasWildcardChild
       THEN LET c == n.children[1]
            IN IF /\ IsPrefix(c.segment, path)
                  /\ c.kind # "catchAll"
                  /\ (Len(c.segment) >= Len(path) \/ path[Len(c.segment) + 1] = Slash)
               THEN Descend(1)
               ELSE Conflict
     ELSE IF n.kind = "param" /\ path[1] = Slash /\ Len(n.children) = 1
       THEN Descend(1)
     ELSE IF ChildAt(n, path[1]) # 0
       THEN Descend(ChildAt(n, path[1]))
     ELSE IF path[1] \notin {":", "*"}
       THEN LET r == insertChild([NewNode EXCEPT !.priority = 1], path, value)
            IN IF ~r.ok THEN Conflict
               ELSE Inserted([n EXCEPT
                      !.children = Bubble(Append(n.children, r.n),
                                          Len(n.children) + 1)])
     ELSE insertChild(n, path, value)

\* node.addRoute: [ok, n]; ok is FALSE when the registration is a conflict.
addRoute(root, path, value) ==
  LET n == [root EXCEPT !.priority = @ + 1]
  IN IF n.segment = <<>> /\ n.children = <<>>
     THEN LET r == insertChild(n, path, value)
          IN IF r.ok THEN Inserted([r.n EXCEPT !.kind = "root"]) ELSE Conflict
     ELSE Walk(n, path, value)

\* ------------------------------------------------------------------ lookup
Captured(ps, on, key, val) == IF on THEN Append(ps, Param(key, val)) ELSE ps

Miss(ps, tsr) == [value |-> NilValue, ps |-> ps, tsr |-> tsr]

Hit(v, ps) == [value |-> v, ps |-> ps, tsr |-> FALSE]

\* n has no value, but the path continued by one '/' has: a child "/" that
\* holds a value, or a catch-all below n (its capture starts at that '/').
RECURSIVE SlashChildHolds(_)
SlashChildHolds(n) ==
  LET k == ChildAt(n, Slash)
  IN /\ k # 0
     /\ LET c == n.children[k]
        IN \/ c.segment = <<Slash>> /\ c.value # NilValue
           \/ c.kind = "catchAll" /\ c.children[1].value # NilValue
           \/ c.kind = "static" /\ c.segment = <<>> /\ SlashChildHolds(c)

\* The walk of getValue from node n with the unconsumed path; up says
\* whether the node the walk came from holds a value; on says whether
\* captures are stored (a params allocator was passed).
RECURSIVE getValueAt(_, _, _, _, _)
getValueAt(n, path, up, ps, on) ==
  LET prefix == n.segment
      rest == From(path, Len(prefix) + 1)
  IN IF Len(path) > Len(prefix) /\ IsPrefix(prefix, path)
     THEN IF ~n.hasWildcardChild
          THEN LET k == ChildAt(n, rest[1])
               IN IF k # 0
                  THEN getValueAt(n.children[k], rest, n.value # NilValue, ps, on)
                  ELSE Miss(ps, rest = <<Slash>> /\ n.value # NilValue)
          ELSE LET c == n.children[1]
                   end == SegmentEnd(rest)
               IN IF c.kind = "param"
                  THEN LET ps1 == Captured(ps, on, Tail(c.segment), SubSeq(rest, 1, end))
                       IN IF end < Len(rest)
                          THEN IF Len(c.children) > 0
                               THEN getValueAt(c.children[1], From(rest, end + 1),
                                               c.value # NilValue, ps1, on)
                               ELSE Miss(ps1, Len(rest) = end + 1 /\ c.value # NilValue)
                          ELSE IF c.value # NilValue THEN Hit(c.value, ps1)
                          ELSE Miss(ps1, SlashChildHolds(c))
                  ELSE Hit(c.value, Captured(ps, on, From(c.segment, 3), rest))
     ELSE IF path = prefix
     THEN IF n.value # NilValue THEN Hit(n.value, ps)
          ELSE Miss(ps, SlashChildHolds(n) \/ (path = <<Slash>> /\ up))
     ELSE Miss(ps, \/ path = <<Slash>> /\ up
                   \/ /\ Len(prefix) = Len(path) + 1
                      /\ Last(prefix) = Slash
                      /\ IsPrefix(path, prefix)
                      /\ n.value # NilValue)

\* node.getValue(path, params): [value, ps, tsr]
getValue(root, path, on) == getValueAt(root, path, FALSE, <<>>, on)

\* --------------------------------------------------------------- CleanPath
RECURSIVE Elements(_)
Elements(p) ==
  IF p = <<>> THEN <<>>
  ELSE IF Head(p) = Slash THEN Elements(Tail(p))
  ELSE LET e == SegmentEnd(p)
       IN <<SubSeq(p, 1, e)>> \o Elements(From(p, e + 1))

RECURSIVE Resolve(_, _)
Resolve(els, out) ==
  IF els = <<>> THEN out
  ELSE IF Head(els) = <<".">> THEN Resolve(Tail(els), out)
  ELSE IF Head(els) = <<".", ".">>
    THEN Resolve(Tail(els), IF out = <<>> THEN out ELSE SubSeq(out, 1, Len(out) - 1))
  ELSE Resolve(Tail(els), Append(out, Head(els)))

RECURSIVE Join(_)
Join(els) == IF els = <<>> THEN <<>> ELSE <<Slash>> \o Head(els) \o Join(Tail(els))

CleanPath(p) ==
  IF p = <<>> \/ Head(p) # Slash THEN <<Slash>>
  ELSE LET els == Resolve(Elements(p), <<>>)
       IN IF els = <<>> THEN <<Slash>>
          ELSE Join(els) \o (IF HasSuffixSlash(p) THEN <<Slash>> ELSE <<>>)

\* ------------------------------------------------ case-insensitive recovery
NotFound == [found |-> FALSE, path |-> <<>>]

Found(p) == [found |-> TRUE, path |-> p]

Under(seg, r) == IF r.found THEN Found(seg \o r.path) ELSE NotFound

RECURSIVE ciWalk(_, _, _, _)
RECURSIVE ciChildren(_, _, _, _)

\* The children of n whose first byte is c.
ciUnder(n, c) == { k \in 1..Len(n.children) : IndexByte(n.children[k]) = c }

\* Faulty variant of the search below n: the first child in sibling order
\* under which the rest of the path is found, whatever its case.
ciChildrenInOrder(n, rest, up, fix) ==
  LET S == { k \in 1..Len(n.children) :
               /\ ToLower(IndexByte(n.children[k])) = ToLower(rest[1])
               /\ ciWalk(n.children[k], rest, up, fix).found }
  IN IF S = {} THEN NotFound
     ELSE ciWalk(n.children[CHOOSE k \in S : \A j \in S : k <= j], rest, up, fix)

\* The search below n for the rest of the path: under the child of the
\* lower-case form of its first byte, then under the child of the other
\* case.  Which branch is taken does not depend on the order of the
\* siblings.
ciChildren(n, rest, up, fix) ==
  LET lo    == ToLower(rest[1])
      under(S) == IF S = {} THEN NotFound
                  ELSE ciWalk(n.children[CHOOSE k \in S : TRUE], rest, up, fix)
      lower == under(ciUnder(n, lo))
      upper == under({ k \in 1..Len(n.children) :
                         /\ IndexByte(n.children[k]) # lo
                         /\ ToLower(IndexByte(n.children[k])) = lo })
  IN IF lower.found THEN lower ELSE upper

ciWalk(n, path, up, fix) ==
  LET seg == n.segment
      rest == From(path, Len(seg) + 1)
  IN IF Len(path) >= Len(seg) /\ EqualFold(SubSeq(path, 1, Len(seg)), seg)
     THEN IF rest = <<>>
          THEN IF n.value # NilValue THEN Found(seg)
               ELSE IF fix /\ SlashChildHolds(n) THEN Found(seg \o <<Slash>>)
               ELSE IF fix /\ seg = <<Slash>> /\ up THEN Found(<<>>)
               ELSE NotFound
          ELSE IF ~n.hasWildcardChild
          THEN LET r == ciChildren(n, rest, n.value # NilValue, fix)
               IN IF r.found THEN Under(seg, r)
                  ELSE IF fix /\ rest = <<Slash>> /\ n.value # NilValue THEN Found(seg)
                  ELSE NotFound
          ELSE LET c == n.children[1]
                   end == SegmentEnd(rest)
                   cap == SubSeq(rest, 1, end)
               IN IF c.kind = "param"
                  THEN IF end < Len(rest)
                       THEN IF Len(c.children) > 0
                            THEN Under(seg \o cap,
                                       ciWalk(c.children[1], From(rest, end + 1),
                                              c.value # NilValue, fix))
                            ELSE IF fix /\ Len(rest) = end + 1 /\ c.value # NilValue
                              THEN Found(seg \o cap)
                            ELSE NotFound
                       ELSE IF c.value # NilValue THEN Found(seg \o cap)
                       ELSE IF fix /\ SlashChildHolds(c) THEN Found(seg \o cap \o <<Slash>>)
                       ELSE NotFound
                  ELSE Found(seg \o rest)
     ELSE IF fix /\ path = <<Slash>> /\ up THEN Found(<<>>)
     ELSE IF /\ fix
             /\ Len(seg) = Len(path) + 1
             /\ Last(seg) = Slash
             /\ EqualFold(path, SubSeq(seg, 1, Len(path)))
             /\ n.value # NilValue
       THEN Found(seg)
     ELSE NotFound

\* node.findCaseInsensitivePath(path, fixTrailingSlash): [found, path]
findCaseInsensitivePath(root, path, fixTrailingSlash) ==
  ciWalk(root, path, FALSE, fixTrailingSlash)

\* ------------------------------------------------------------------ inputs
Connect == "CONNECT"

Methods == {"GET", Connect}

\* Patterns offered to Add / Pattern.Add.
Patterns ==
  { <<"/">>,
    <<"/", "p">>,
    <<"/", "P">>,
    <<"/", "d">>,
    <<"/", "d", "/">>,
    <<"/", "a", "/", ":", "n">>,
    <<"/", "a", "/", ":", "$">>,
    <<"/", "a", "/", "b">>,
    <<"/", "a", "/", ":", "n", "/", ":", "m">>,
    <<"/", "d", "/", "*", "r">> }

\* Request paths offered to Lookup / Match / MatchURL.
Paths ==
  { <<>>, <<"/">>,
    <<"/", "p">>, <<"/", "p", "/">>, <<"/", "P">>, <<"/", "P", "/">>,
    <<"/", ".", ".", "/", "p">>,
    <<"/", "d">>, <<"/", "d", "/">>, <<"/", "D">>,
    <<"/", "d", "/", "b">>, <<"/", "d", "/", "b", "/", "p">>,
    <<"/", "a", "/">>,
    <<"/", "a", "/", "b">>, <<"/", "a", "/", "b", "/">>, <<"/", "A", "/", "B">>,
    <<"/", "a", "/", "b", "/", "d">>,
    <<"/", "a", "/", "/", "d">>, <<"/", "a", "/", ".", ".", "/">> }

\* Request paths offered to Router.MatchURL.
URLPaths ==
  { <<"/">>, <<"/", "p">>, <<"/", "p", "/">>, <<"/", "P">>,
    <<"/", "d", "/", "b">>, <<"/", "a", "/", "b">>, <<"/", "a", "/", "b", "/">>,
    <<"/", "a", "/", "b", "/", "d">> }

\* The method a Pattern's routes are recorded under: it has none.
PatternKey == "-"

\* The handler registered with a route; the empty tuple is the nil value.
Nil == <<>>

\* The methods Any registers under, in the order of its Add calls.
AnyMethods ==
  <<"GET", "POST", "PUT", "PATCH", "HEAD", "OPTIONS", "DELETE", Connect, "TRACE">>

\* Patterns offered to Any.
AnyPatterns == { <<"/", "y">>, <<"/", "a", "/", ":", "y">> }

AnyKey == "*"

\* The handler registered with a route: one per method and pattern, and one
\* for all methods for a pattern registered through Any.
Handler(method, path) ==
  IF path \in AnyPatterns THEN <<"h", AnyKey>> \o path
  ELSE <<"h", method>> \o path

\* Arguments offered to Any, one of them invalid.
AnyInputs ==
  { <<p, Handler(AnyKey, p)>> : p \in AnyPatterns }
    \cup { <<<<"y">>, Handler(AnyKey, <<"y">>)>> }

\* Arguments offered to Router.Add: every pattern under every method with
\* its handler, and calls with an empty method, an empty path, a path
\* without leading '/', or a nil value.
AddInputs ==
  { <<m, p, Handler(m, p)>> : m \in Methods, p \in Patterns }
    \cup { <<"", <<"/", "p">>, Handler("", <<"/", "p">>)>>,
           <<"GET", <<>>, Handler("GET", <<>>)>>,
           <<Connect, <<"p">>, Handler(Connect, <<"p">>)>>,
           <<"GET", <<"/", "p">>, Nil>>,
           <<"", <<>>, Nil>> }

\* Arguments offered to Pattern.Add.
PatternAddInputs ==
  { <<p, Handler(PatternKey, p)>> : p \in Patterns }
    \cup { <<<<>>, Handler(PatternKey, <<>>)>>,
           <<<<"p">>, Handler(PatternKey, <<"p">>)>>,
           <<<<"/", "p">>, Nil>>,
           <<<<"p">>, Nil>> }

\* ------------------------------------------------------------------- state
VARIABLES
  object,                 \* "Router" (built by New) or "Pattern" (NewPattern)
  trees,                  \* Router.trees: method -> root node
  paramsNew,              \* Router.paramsNew # nil
  maxParams,              \* Router.maxParams
  root,                   \* Pattern.root
  saveMatchedRoutePath,   \* Options
  redirectTrailingSlash,
  redirectFixedPath,
  routes,                 \* history: the registrations that returned normally
  res                     \* the call in progress at the caller and its outcome

router == <<trees, paramsNew, maxParams>>

options == <<saveMatchedRoutePath, redirectTrailingSlash, redirectFixedPath>>

vars == <<object, trees, paramsNew, maxParams, root, saveMatchedRoutePath,
          redirectTrailingSlash, redirectFixedPath, routes, res>>

NoCall ==
  [op |-> "none", method |-> "", path |-> <<>>, arg |-> Nil, value |-> NilValue,
   params |-> <<>>, routePath |-> <<>>, flag |-> FALSE, hops |-> 0,
   panic |-> "none"]

Outcome(op, method, path, value, params, routePath, flag, hops) ==
  [op |-> op, method |-> method, path |-> path, arg |-> Nil, value |-> value,
   params |-> params, routePath |-> routePath, flag |-> flag, hops |-> hops,
   panic |-> "none"]

Panicked(op, method, path, why) ==
  [NoCall EXCEPT !.op = op, !.method = method, !.path = path, !.panic = why]

\* New(opts...) / NewPattern(opts...): any subset of the three options.
Init ==
  /\ object \in {"Router", "Pattern"}
  /\ trees = <<>>
  /\ paramsNew = FALSE
  /\ maxParams = 0
  /\ root = NewNode
  /\ saveMatchedRoutePath \in BOOLEAN
  /\ redirectTrailingSlash \in BOOLEAN
  /\ redirectFixedPath \in BOOLEAN
  /\ routes = {}
  /\ res = NoCall

Idle == res.op = "none"

Route(method, path) == [method |-> method, path |-> path]

\* ---------------------------------------------------------------- Router
\* Faulty variant of the wrapping: the value is stored as given whatever
\* the mode.
StoredPlain(path, value) == PlainValue(value)

\* What Add stores for a route: the value, wrapped with the pattern when the
\* matched route path is saved.
Stored(path, value) ==
  IF saveMatchedRoutePath THEN matchValue(path, value) ELSE PlainValue(value)

\* Faulty variant of the tree selection: the tree is not taken by method.
TreeOfAny(method) ==
  IF trees = <<>> THEN NewNode ELSE trees[CHOOSE m \in DOMAIN trees : TRUE]

TreeOf(method) == IF method \in DOMAIN trees THEN trees[method] ELSE NewNode

\* Faulty variant of the argument checks: the value is not checked.
addChecksNoValue(method, path, value) ==
  IF method = "" THEN "method"
  ELSE IF Len(path) < 1 \/ path[1] # Slash THEN "path"
  ELSE "none"

\* The argument checks of Router.Add: which panic they raise, if any.
addChecks(method, path, value) ==
  IF method = "" THEN "method"
  ELSE IF Len(path) < 1 \/ path[1] # Slash THEN "path"
  ELSE IF value = Nil THEN "value"
  ELSE "none"

\* Faulty variant of the count: the test of the mode is inverted.
varsCountInverted == IF saveMatchedRoutePath THEN 0 ELSE 1

\* varsCount of Router.Add: the room for the matched-route-path entry.
varsCount == IF saveMatchedRoutePath THEN 1 ELSE 0

Add(method, path, value) ==
  /\ object = "Router"
  /\ Idle
  /\ IF addChecks(method, path, value) # "none"
     THEN /\ res' = [Panicked("Add", method, path, addChecks(method, path, value))
                       EXCEPT !.arg = value]
          /\ UNCHANGED <<router, routes>>
     ELSE LET r == addRoute(TreeOf(method), path, Stored(path, value))
              count == countParams(path) + varsCount
          IN IF ~r.ok
             THEN /\ res' = [Panicked("Add", method, path, "conflict")
                               EXCEPT !.arg = value]
                  /\ UNCHANGED <<router, routes>>
             ELSE /\ Cardinality(routes) < MaxRoutes
                  /\ trees' = [m \in DOMAIN trees \cup {method} |->
                                 IF m = method THEN r.n ELSE trees[m]]
                  /\ maxParams' = IF count > maxParams THEN count ELSE maxParams
                  /\ paramsNew' = (paramsNew \/ maxParams' > 0)
                  /\ routes' = routes \cup {Route(method, path)}
                  /\ res' = [Outcome("Add", method, path, NilValue,
                                     <<>>, <<>>, FALSE, 0) EXCEPT !.arg = value]
  /\ UNCHANGED <<object, root, options>>

\* Router.Any: the Add calls for the nine methods, in order; the first one
\* that panics ends the chain, the registrations made before it stay.  A
\* successful Any counts for two registrations against MaxRoutes.
RouterAny(path, value) ==
  /\ object = "Router"
  /\ Idle
  /\ IF addChecks(AnyMethods[1], path, value) # "none"
     THEN /\ res' = [Panicked("Any", AnyMethods[1], path,
                               addChecks(AnyMethods[1], path, value))
                       EXCEPT !.arg = value]
          /\ UNCHANGED <<router, routes>>
     ELSE \E added \in { [m \in { AnyMethods[k] : k \in DOMAIN AnyMethods } |->
                            addRoute(TreeOf(m), path, Stored(path, value))] } :
          \E bad \in { { k \in DOMAIN AnyMethods : ~added[AnyMethods[k]].ok } } :
          \E stop \in { IF bad = {} THEN Len(AnyMethods) + 1
                        ELSE CHOOSE k \in bad : \A j \in bad : k <= j } :
          \E done \in { { AnyMethods[k] : k \in 1..(stop - 1) } } :
          \E count \in { countParams(path) + varsCount } :
            /\ bad = {} => Cardinality(routes) + 1 < MaxRoutes
            /\ trees' = [m \in DOMAIN trees \cup done |->
                           IF m \in done THEN added[m].n ELSE trees[m]]
            /\ maxParams' = IF done # {} /\ count > maxParams
                            THEN count ELSE maxParams
            /\ paramsNew' = (paramsNew \/ maxParams' > 0)
            /\ routes' = routes \cup { Route(m, path) : m \in done }
            /\ res' = IF bad = {}
                      THEN [Outcome("Any", "", path, NilValue, <<>>, <<>>,
                                    FALSE, 0) EXCEPT !.arg = value]
                      ELSE [Panicked("Any", AnyMethods[stop], path, "conflict")
                              EXCEPT !.arg = value]
  /\ UNCHANGED <<object, root, options>>

\* Faulty variant of Router.Lookup: the nil test of the value is inverted.
lookupNilInverted(method, path) ==
  IF method \in DOMAIN trees
  THEN LET g == getValue(trees[method], path, paramsNew)
       IN IF g.value # NilValue
          THEN [value |-> NilValue, params |-> <<>>, tsr |-> g.tsr]
          ELSE [value |-> g.value, params |-> g.ps, tsr |-> g.tsr]
  ELSE [value |-> NilValue, params |-> <<>>, tsr |-> FALSE]

\* Faulty variant of Router.Lookup: the nil test of the params is inverted,
\* so captured params are returned as nil.
lookupDropsParams(method, path) ==
  IF method \in DOMAIN trees
  THEN LET g == getValue(trees[method], path, paramsNew)
       IN IF g.value = NilValue
          THEN [value |-> NilValue, params |-> <<>>, tsr |-> g.tsr]
          ELSE [value |-> g.value, params |-> <<>>, tsr |-> g.tsr]
  ELSE [value |-> NilValue, params |-> <<>>, tsr |-> FALSE]

\* Faulty variant of Router.Lookup: getValue is called without the params
\* allocator.
lookupNoAllocator(method, path) ==
  IF method \in DOMAIN trees
  THEN LET g == getValue(trees[method], path, FALSE)
       IN IF g.value = NilValue
          THEN [value |-> NilValue, params |-> <<>>, tsr |-> g.tsr]
          ELSE [value |-> g.value, params |-> g.ps, tsr |-> g.tsr]
  ELSE [value |-> NilValue, params |-> <<>>, tsr |-> FALSE]

\* Faulty variant of Router.Lookup: a miss returns tsr = false whatever
\* getValue reported.
lookupDropsTsr(method, path) ==
  IF method \in DOMAIN trees
  THEN LET g == getValue(trees[method], path, paramsNew)
       IN IF g.value = NilValue
          THEN [value |-> NilValue, params |-> <<>>, tsr |-> FALSE]
          ELSE [value |-> g.value, params |-> g.ps, tsr |-> g.tsr]
  ELSE [value |-> NilValue, params |-> <<>>, tsr |-> FALSE]

\* Faulty variant of Router.Lookup: a method without a tree is looked up in
\* the tree of another method.
lookupAnyTree(method, path) ==
  IF trees # <<>>
  THEN LET g == getValue(TreeOfAny(method), path, paramsNew)
       IN IF g.value = NilValue
          THEN [value |-> NilValue, params |-> <<>>, tsr |-> g.tsr]
          ELSE [value |-> g.value, params |-> g.ps, tsr |-> g.tsr]
  ELSE [value |-> NilValue, params |-> <<>>, tsr |-> FALSE]

\* Faulty variant of Router.Lookup: a method without a tree returns
\* tsr = true.
lookupTsrWithoutTree(method, path) ==
  IF method \in DOMAIN trees
  THEN LET g == getValue(trees[method], path, paramsNew)
       IN IF g.value = NilValue
          THEN [value |-> NilValue, params |-> <<>>, tsr |-> g.tsr]
          ELSE [value |-> g.value, params |-> g.ps, tsr |-> g.tsr]
  ELSE [value |-> NilValue, params |-> <<>>, tsr |-> TRUE]

\* Router.Lookup: (value, params, tsr)
lookup(method, path) ==
  IF method \in DOMAIN trees
  THEN LET g == getValue(trees[method], path, paramsNew)
       IN IF g.value = NilValue
          THEN [value |-> NilValue, params |-> <<>>, tsr |-> g.tsr]
          ELSE [value |-> g.value, params |-> g.ps, tsr |-> g.tsr]
  ELSE [value |-> NilValue, params |-> <<>>, tsr |-> FALSE]

\* Faulty variant of Router.Lookup: the tree of the method is created when
\* it is missing, as Add does.
LookupCreatesTree(method, path) ==
  /\ object = "Router"
  /\ Idle
  /\ LET l == lookup(method, path)
     IN res' = Outcome("Lookup", method, path, l.value, l.params, <<>>, l.tsr, 0)
  /\ trees' = [m \in DOMAIN trees \cup {method} |-> TreeOf(m)]
  /\ UNCHANGED <<object, paramsNew, maxParams, root, options, routes>>

Lookup(method, path) ==
  /\ object = "Router"
  /\ Idle
  /\ LET l == lookup(method, path)
     IN res' = Outcome("Lookup", method, path, l.value, l.params, <<>>, l.tsr, 0)
  /\ UNCHANGED <<object, router, root, options, routes>>

\* Faulty variant of the toggle: a '/' is appended whatever the path ends
\* with.
ToggleSlashAppends(path) == Append(path, Slash)

\* The request path with its trailing slash toggled.
ToggleSlash(path) ==
  IF Len(path) > 1 /\ Last(path) = Slash
  THEN SubSeq(path, 1, Len(path) - 1)
  ELSE Append(path, Slash)

NoMatch(hops) ==
  [value |-> NilValue, params |-> <<>>, matched |-> FALSE, hops |-> hops,
   panic |-> FALSE]

\* Faulty variant of the guard: the test is inverted.
recoverableInverted(method, path) == method = Connect \/ path = <<Slash>>

\* Faulty variant of the guard: the method is not looked at.
recoverableAnyMethod(method, path) == path # <<Slash>>

\* The guard of the recovery block of Router.match.
recoverable(method, path) == method # Connect /\ path # <<Slash>>

\* Faulty variant of the type assertion: any stored value passes it.
isMatchValueAny(value) == TRUE

\* value.(*matchValue): whether the stored value is a wrapped pair.
isMatchValue(value) == value.wrapped

\* Router.match with the allocator passed (on); a redirect re-enters
\* through Router.Match, which passes r.paramsNew.  hops counts re-entries.
RECURSIVE match(_, _, _, _)
match(method, path, on, hops) ==
  IF method \notin DOMAIN trees THEN NoMatch(hops)
  ELSE LET g == getValue(trees[method], path, on)
           fixed == findCaseInsensitivePath(trees[method], CleanPath(path),
                                            redirectTrailingSlash)
       IN IF g.value # NilValue
          THEN IF saveMatchedRoutePath
               THEN IF ~isMatchValue(g.value)
                    THEN [NoMatch(hops) EXCEPT !.panic = TRUE]
                    ELSE [value |-> PlainValue(g.value.Value),
                          params |-> Append(g.ps, Param(MatchedRoutePathParam,
                                                        g.value.matchedPath)),
                          matched |-> TRUE, hops |-> hops, panic |-> FALSE]
               ELSE [value |-> g.value, params |-> g.ps, matched |-> TRUE,
                     hops |-> hops, panic |-> FALSE]
          ELSE IF recoverable(method, path)
          THEN IF g.tsr /\ redirectTrailingSlash
               THEN match(method, ToggleSlash(path), paramsNew, hops + 1)
               ELSE IF redirectFixedPath /\ fixed.found
               THEN match(method, fixed.path, paramsNew, hops + 1)
               ELSE NoMatch(hops)
          ELSE NoMatch(hops)

\* Router.Match: (value, params, matched)
Match(method, path) ==
  /\ object = "Router"
  /\ Idle
  /\ LET m == match(method, path, paramsNew, 0)
     IN res' = IF m.panic THEN Panicked("Match", method, path, "matchValue")
               ELSE Outcome("Match", method, path, m.value, m.params, <<>>,
                            m.matched, m.hops)
  /\ UNCHANGED <<object, router, root, options, routes>>

\* Params.Param(name): the value of the first Param with that key, else "".
RECURSIVE ParamOf(_, _)
ParamOf(ps, name) ==
  IF ps = <<>> THEN <<>>
  ELSE IF Head(ps).Key = name THEN Head(ps).Value
  ELSE ParamOf(Tail(ps), name)

MatchedRoutePath(ps) == ParamOf(ps, MatchedRoutePathParam)

\* Router.MatchURL: (value, matched route path, matched)
MatchURL(method, path) ==
  /\ object = "Router"
  /\ Idle
  /\ LET m == match(method, path, FALSE, 0)
     IN res' = IF m.panic THEN Panicked("MatchURL", method, path, "matchValue")
               ELSE Outcome("MatchURL", method, path, m.value, <<>>,
                            MatchedRoutePath(m.params), m.matched, m.hops)
  /\ UNCHANGED <<object, router, root, options, routes>>

\* ---------------------------------------------------------------- Pattern
\* The argument checks of Pattern.Add.
patternAddChecks(path, value) ==
  IF Len(path) < 1 \/ path[1] # Slash THEN "path"
  ELSE IF value = Nil THEN "value"
  ELSE "none"

PatternAdd(path, value) ==
  /\ object = "Pattern"
  /\ Idle
  /\ IF patternAddChecks(path, value) # "none"
     THEN /\ res' = [Panicked("PatternAdd", PatternKey, path,
                               patternAddChecks(path, value)) EXCEPT !.arg = value]
          /\ UNCHANGED <<root, routes>>
     ELSE LET r == addRoute(root, path, Stored(path, value))
          IN IF ~r.ok
             THEN /\ res' = [Panicked("PatternAdd", PatternKey, path, "conflict")
                               EXCEPT !.arg = value]
                  /\ UNCHANGED <<root, routes>>
             ELSE /\ Cardinality(routes) < MaxRoutes
                  /\ root' = r.n
                  /\ routes' = routes \cup {Route(PatternKey, path)}
                  /\ res' = [Outcome("PatternAdd", PatternKey, path, NilValue,
                                     <<>>, <<>>, FALSE, 0) EXCEPT !.arg = value]
  /\ UNCHANGED <<object, router, options>>

NoMatchURL(hops) ==
  [value |-> NilValue, routePath |-> <<>>, matched |-> FALSE, hops |-> hops,
   panic |-> FALSE]

RECURSIVE patternMatchURL(_, _)
patternMatchURL(path, hops) ==
  LET g == getValue(root, path, FALSE)
      fixed == findCaseInsensitivePath(root, CleanPath(path), redirectTrailingSlash)
  IN IF g.value # NilValue
     THEN IF saveMatchedRoutePath
          THEN IF ~isMatchValue(g.value)
               THEN [NoMatchURL(hops) EXCEPT !.panic = TRUE]
               ELSE [value |-> PlainValue(g.value.Value),
                     routePath |-> g.value.matchedPath,
                     matched |-> TRUE, hops |-> hops, panic |-> FALSE]
          ELSE [value |-> g.value, routePath |-> <<>>, matched |-> TRUE,
                hops |-> hops, panic |-> FALSE]
     ELSE IF path # <<Slash>>
     THEN IF g.tsr /\ redirectTrailingSlash
          THEN patternMatchURL(ToggleSlash(path), hops + 1)
          ELSE IF redirectFixedPath /\ fixed.found
          THEN patternMatchURL(fixed.path, hops + 1)
          ELSE NoMatchURL(hops)
     ELSE NoMatchURL(hops)

\* Pattern.MatchURL: (value, matched route path, matched)
PatternMatchURL(path) ==
  /\ object = "Pattern"
  /\ Idle
  /\ LET m == patternMatchURL(path, 0)
     IN res' = IF m.panic
               THEN Panicked("PatternMatchURL", PatternKey, path, "matchValue")
               ELSE Outcome("PatternMatchURL", PatternKey, path, m.value, <<>>,
                            m.routePath, m.matched, m.hops)
  /\ UNCHANGED <<object, router, root, options, routes>>

\* ----------------------------------------------------------------- caller
\* The caller takes the outcome of its call and goes on; a conflict panic
\* of addRoute is fatal, the program does not go on after it.
Return ==
  /\ ~Idle
  /\ res.panic # "conflict"
  /\ res' = NoCall
  /\ UNCHANGED <<object, router, root, options, routes>>

Next ==
  \/ \E a \in AddInputs : Add(a[1], a[2], a[3])
  \/ \E a \in AnyInputs : RouterAny(a[1], a[2])
  \/ \E m \in Methods, p \in Paths : Lookup(m, p)
  \/ \E m \in Methods, p \in Paths : Match(m, p)
  \/ \E m \in Methods, p \in URLPaths : MatchURL(m, p)
  \/ \E a \in PatternAddInputs : PatternAdd(a[1], a[2])
  \/ \E p \in Paths : PatternMatchURL(p)
  \/ Return

Spec == Init /\ [][Next]_vars

\* ------------------------------------------------- the option set late
\* router.saveMatchedRoutePath = true on a router or pattern in use: code of
\* the package can set the embedded option after construction.
SetSaveMatchedRoutePath ==
  /\ Idle
  /\ saveMatchedRoutePath' = TRUE
  /\ UNCHANGED <<object, router, root, redirectTrailingSlash,
                 redirectFixedPath, routes, res>>

\* New() / NewPattern() without options: the mode off, both redirects on.
InitModeSet ==
  /\ Init
  /\ ~saveMatchedRoutePath
  /\ redirectTrailingSlash
  /\ redirectFixedPath

\* The matching calls and the registrations, with the option set at any
\* point between them.
NextModeSet ==
  \/ \E a \in AddInputs : Add(a[1], a[2], a[3])
  \/ \E m \in Methods, p \in Paths : Match(m, p)
  \/ \E m \in Methods, p \in URLPaths : MatchURL(m, p)
  \/ \E a \in PatternAddInputs : PatternAdd(a[1], a[2])
  \/ \E p \in Paths : PatternMatchURL(p)
  \/ Return
  \/ SetSaveMatchedRoutePath

SpecModeSet == InitModeSet /\ [][NextModeSet]_vars

\* ------------------------------------------------- reference semantics
\* What a pattern means, read off the pattern text alone: ':name' stands
\* for the longest run of non-'/' bytes, which must be non-empty when the
\* pattern ends there; '/*name' stands for the rest of the path from its
\* '/' on.  With fold set, static bytes compare case-insensitively.
NoRef == [ok |-> FALSE, ps |-> <<>>]

RECURSIVE RefMatch(_, _, _)
RefMatch(pat, path, fold) ==
  IF pat = <<>> THEN [ok |-> path = <<>>, ps |-> <<>>]
  ELSE IF Head(pat) = ":"
  THEN LET nl   == SegmentEnd(Tail(pat))
           name == SubSeq(pat, 2, nl + 1)
           rp   == From(pat, nl + 2)
           e    == SegmentEnd(path)
           cap  == SubSeq(path, 1, e)
           r    == RefMatch(rp, From(path, e + 1), fold)
       IN IF rp = <<>>
          THEN [ok |-> e > 0 /\ e = Len(path), ps |-> <<Param(name, cap)>>]
          ELSE [ok |-> r.ok, ps |-> <<Param(name, cap)>> \o r.ps]
  ELSE IF Len(pat) >= 2 /\ pat[1] = Slash /\ pat[2] = "*"
  THEN [ok |-> path # <<>> /\ Head(path) = Slash,
        ps |-> <<Param(From(pat, 3), path)>>]
  ELSE IF path # <<>> /\ (\/ Head(path) = Head(pat)
                          \/ fold /\ ToLower(Head(path)) = ToLower(Head(pat)))
  THEN RefMatch(Tail(pat), Tail(path), fold)
  ELSE NoRef

\* The registered routes of a method whose pattern the path instantiates.
Matching(method, path) ==
  { r \in routes : r.method = method /\ RefMatch(r.path, path, FALSE).ok }

\* The same, ignoring the case of static bytes.
MatchingFold(method, path) ==
  { r \in routes : r.method = method /\ RefMatch(r.path, path, TRUE).ok }

\* What Add stored for a route.
StoredFor(r) == Stored(r.path, Handler(r.method, r.path))

IsStatic(pat) == countParams(pat) = 0

\* A Lookup call has returned.
IsLookup == res.op = "Lookup"

\* ------------------------------------------------------------- claim C1
\* The registered static pattern a Lookup or Match call was made on.
OnRegisteredStatic ==
  /\ Route(res.method, res.path) \in routes
  /\ IsStatic(res.path)

\* No route of the method is a candidate for the path, exactly or through
\* recovery: none matches it, its slash-toggled form, or its normalized
\* form with or without the slash toggled, even ignoring case.
NoCandidate(method, path) ==
  \A q \in {path, ToggleSlash(path), CleanPath(path),
            ToggleSlash(CleanPath(path))} : MatchingFold(method, q) = {}

MissesEverything ==
  (res.op \in {"Lookup", "Match"} /\ NoCandidate(res.method, res.path))
    => res.value = NilValue /\ res.params = <<>> /\ ~res.flag

\* C1 as stated: for a registered wildcard-free pattern P with value V under
\* method M, Lookup(M, P) returns (V, no params, tsr = false) and Match(M, P)
\* returns (V, nil params, matched = true), for every router; a path with no
\* route and no recovery candidate returns (nil, nil, false).
C1_AsStated ==
  /\ (IsLookup /\ OnRegisteredStatic)
       => /\ res.value = PlainValue(Handler(res.method, res.path))
          /\ res.params = <<>>
          /\ ~res.flag
  /\ (res.op = "Match" /\ OnRegisteredStatic)
       => /\ res.panic = "none"
          /\ res.value = PlainValue(Handler(res.method, res.path))
          /\ res.params = <<>>
          /\ res.flag
  /\ MissesEverything

\* C1, amended: static round trip.  For a registered wildcard-free pattern P
\* with value V under method M, Lookup(M, P) returns what Add stored for P
\* (V, or the pair (P, V) in save-matched-pattern mode), no params and
\* tsr = false; Match(M, P) returns V with matched = true and, as params,
\* nil without save-matched-pattern mode and the single entry
\* (MatchedRoutePathParam, P) with it; a path with no route and no recovery
\* candidate returns (nil, nil, false).
C1_StaticRoundTrip ==
  /\ (IsLookup /\ OnRegisteredStatic)
       => /\ res.value = Stored(res.path, Handler(res.method, res.path))
          /\ res.params = <<>>
          /\ ~res.flag
  /\ (res.op = "Match" /\ OnRegisteredStatic)
       => /\ res.panic = "none"
          /\ res.value = PlainValue(Handler(res.method, res.path))
          /\ res.params = IF saveMatchedRoutePath
                          THEN <<Param(MatchedRoutePathParam, res.path)>>
                          ELSE <<>>
          /\ res.flag
  /\ MissesEverything

\* Match of a registered static pattern has returned, next to another route.
C1_Witness ==
  /\ res.op = "Match"
  /\ OnRegisteredStatic
  /\ res.flag
  /\ Cardinality(routes) = 2

\* ------------------------------------------------------------- claim C2
HasNamed(pat) == \E i \in 1..Len(pat) : pat[i] = ":"

HasCatchAll(pat) == \E i \in 1..Len(pat) : pat[i] = "*"

\* The routes with ':name' parameters of the method a Lookup was made on.
NamedRoutes ==
  { r \in routes : r.method = res.method /\ HasNamed(r.path)
                                          /\ ~HasCatchAll(r.path) }

\* The path instantiates the pattern with every parameter non-empty.
NonEmptyInstance(pat, path) ==
  LET m == RefMatch(pat, path, FALSE)
  IN m.ok /\ \A i \in 1..Len(m.ps) : m.ps[i].Value # <<>>

\* The path instantiates the pattern but for a parameter left empty.
EmptyParamInstance(pat, path) ==
  /\ ~NonEmptyInstance(pat, path)
  /\ \E i \in 1..Len(path) :
       /\ path[i] = Slash
       /\ i = Len(path) \/ path[i + 1] = Slash
       /\ \E c \in {"b", "d", "p"} :
            NonEmptyInstance(pat, SubSeq(path, 1, i) \o <<c>> \o From(path, i + 1))

\* C2 as stated: ':name' matches exactly one non-empty run of non-'/' bytes.
\* A lookup of a path that instantiates every parameter of a registered
\* pattern with a non-empty '/'-free string returns the route's value and one
\* (name, captured text) pair per parameter in pattern order; a path with a
\* segment after the last parameter, or with an empty parameter, yields no
\* value.
C2_AsStated ==
  IsLookup =>
    \A r \in NamedRoutes :
      /\ NonEmptyInstance(r.path, res.path)
           => /\ res.value.Value = Handler(r.method, r.path)
              /\ res.params = RefMatch(r.path, res.path, FALSE).ps
      /\ EmptyParamInstance(r.path, res.path) => res.value = NilValue
      /\ (~NonEmptyInstance(r.path, res.path)
          /\ Matching(res.method, res.path) \subseteq {r})
           => res.value = NilValue

\* C2, amended: parameter capture.  ':name' captures the longest run of
\* non-'/' bytes at its position; the run is non-empty when the pattern ends
\* with the parameter and may be empty when more of the pattern follows.  A
\* lookup of a path that instantiates a registered pattern in this sense
\* returns what Add stored for the route and one (name, captured text) pair
\* per parameter in pattern order; a path that instantiates no route (a
\* segment after the last parameter, an empty final parameter) yields no
\* value.
C2_ParamCapture ==
  IsLookup =>
    \A r \in NamedRoutes :
      LET m == RefMatch(r.path, res.path, FALSE)
      IN /\ m.ok => /\ res.value = StoredFor(r)
                    /\ res.params = m.ps
         /\ Matching(res.method, res.path) = {}
              => res.value = NilValue /\ res.params = <<>>

\* A lookup has returned a two-parameter route with its first parameter
\* empty and the second not.
C2_Witness ==
  /\ IsLookup
  /\ res.value # NilValue
  /\ Len(res.params) = 2
  /\ res.params[1].Value = <<>>
  /\ res.params[2].Value # <<>>

\* ------------------------------------------------------------- claim C3
\* The routes S + '/*name' with static S of the method of the call.
CatchAllRoutes ==
  { r \in routes : r.method = res.method /\ HasCatchAll(r.path)
                                          /\ ~HasNamed(r.path) }

StarAt(pat) == CHOOSE i \in 1..Len(pat) : pat[i] = "*"

\* S and name of the pattern S + '/*name'.
CatchAllPrefix(pat) == SubSeq(pat, 1, StarAt(pat) - 2)

CatchAllName(pat) == From(pat, StarAt(pat) + 1)

CatchAllCaptures(r) ==
  IsPrefix(Append(CatchAllPrefix(r.path), Slash), res.path)
    => /\ res.value = StoredFor(r)
       /\ res.params = << [Key |-> CatchAllName(r.path),
                           Value |-> From(res.path,
                                          Len(CatchAllPrefix(r.path)) + 1)] >>

\* C3 as stated: for a registered pattern S + '/*name', every path
\* S + '/' + rest (rest possibly empty) matches with the single param
\* (name, '/' + rest); looking up S itself returns no value and flags the
\* trailing-slash redirect.
C3_AsStated ==
  IsLookup =>
    \A r \in CatchAllRoutes :
      /\ CatchAllCaptures(r)
      /\ res.path = CatchAllPrefix(r.path) => res.value = NilValue /\ res.flag

\* C3, amended: catch-all capture.  For a registered pattern S + '/*name',
\* every path S + '/' + rest (rest possibly empty) matches with the single
\* param (name, '/' + rest); looking up S itself, when S is not a registered
\* pattern of its own, returns no value and flags the trailing-slash
\* redirect.
C3_CatchAllCapture ==
  IsLookup =>
    \A r \in CatchAllRoutes :
      /\ CatchAllCaptures(r)
      /\ (res.path = CatchAllPrefix(r.path)
          /\ Route(res.method, res.path) \notin routes)
           => res.value = NilValue /\ res.flag

\* A lookup of S alone has flagged the redirect to the catch-all route
\* S + '/*name', registered next to another route.
C3_Witness ==
  /\ IsLookup
  /\ res.flag
  /\ Cardinality(routes) = 2
  /\ \E r \in CatchAllRoutes : res.path = CatchAllPrefix(r.path)

\* ------------------------------------------------------------- claim C4
\* The routes of the method of the call whose pattern is static or ends
\* with a ':name' parameter.
PlainRoutes ==
  { r \in routes : r.method = res.method /\ ~HasCatchAll(r.path) }

\* The looked-up path is P + '/' for a registered P (or an instance of P)
\* without trailing slash, and the pattern P + '/' is not registered.
SlashAdded(r) ==
  /\ ~HasSuffixSlash(r.path)
  /\ Len(res.path) > 1
  /\ HasSuffixSlash(res.path)
  /\ RefMatch(r.path, SubSeq(res.path, 1, Len(res.path) - 1), FALSE).ok
  /\ Route(res.method, Append(r.path, Slash)) \notin routes

\* The looked-up path is P for a registered P + '/' (or an instance), and
\* the pattern P is not registered.
SlashDropped(r) ==
  /\ HasSuffixSlash(r.path)
  /\ RefMatch(r.path, Append(res.path, Slash), FALSE).ok
  /\ Route(res.method, SubSeq(r.path, 1, Len(r.path) - 1)) \notin routes

\* C4 as stated: if P is registered and P + '/' is not, Lookup(P + '/')
\* returns no value with tsr = true; if P + '/' is registered and P is not,
\* Lookup(P) returns no value with tsr = true; also when the last segment
\* of P is a parameter.
C4_AsStated ==
  IsLookup =>
    \A r \in PlainRoutes :
      (SlashAdded(r) \/ SlashDropped(r)) => res.value = NilValue /\ res.flag

\* C4, amended: trailing-slash symmetry of the Lookup flag.  If P is
\* registered and no route matches P + '/' (P + '/' is not registered, and
\* neither is a catch-all P + '/*name'), Lookup(P + '/') returns no value
\* with tsr = true; if P + '/' is registered and P is not, Lookup(P) returns
\* no value with tsr = true; also when the last segment of P is a parameter.
C4_SlashSymmetry ==
  IsLookup =>
    \A r \in PlainRoutes :
      ((SlashAdded(r) /\ Matching(res.method, res.path) = {}) \/ SlashDropped(r))
        => res.value = NilValue /\ res.flag

\* A lookup of an instance of a parameter-final pattern with '/' appended
\* has returned the flag.
C4_Witness ==
  /\ IsLookup
  /\ res.flag
  /\ \E r \in PlainRoutes : HasNamed(r.path) /\ SlashAdded(r)

\* ------------------------------------------------------------- claim C5
\* The exact lookup the matcher starts with, for a Router or a Pattern.
Exact(method, path) ==
  IF object = "Router" THEN lookup(method, path)
  ELSE LET g == getValue(root, path, FALSE)
       IN [value |-> g.value, params |-> g.ps, tsr |-> g.tsr]

\* The value a route's stored entry carries.
Unwrapped(v) == PlainValue(v.Value)

\* C5: soundness of the trailing-slash flag.  Whenever a lookup reports
\* tsr = true, no value was found for the looked-up path and a route matches
\* the path with its trailing slash toggled (one '/' appended, or the final
\* '/' removed); so the slash-toggled re-resolution of Match and
\* Pattern.MatchURL, made when the flag is set and the redirect is enabled,
\* always finds that value.
C5_TsrSound ==
  /\ (IsLookup /\ res.flag)
       => /\ res.value = NilValue
          /\ Matching(res.method, ToggleSlash(res.path)) # {}
  /\ (/\ res.op \in {"Match", "PatternMatchURL"}
      /\ Exact(res.method, res.path).value = NilValue
      /\ Exact(res.method, res.path).tsr
      /\ redirectTrailingSlash
      /\ res.method # Connect
      /\ res.path # <<Slash>>)
       => /\ res.panic = "none"
          /\ res.flag
          /\ res.hops = 1
          /\ res.value = Unwrapped(Exact(res.method, ToggleSlash(res.path)).value)
          /\ res.value # NilValue

\* A Match call has returned the value found by the slash-toggled
\* re-resolution.
C5_Witness ==
  /\ res.op = "Match"
  /\ res.flag
  /\ res.hops = 1
  /\ Exact(res.method, res.path).tsr
  /\ redirectTrailingSlash

\* ------------------------------------------------------------- claim C6
DefaultOptions ==
  redirectTrailingSlash /\ redirectFixedPath /\ ~saveMatchedRoutePath

IsMatching == res.op \in {"Match", "PatternMatchURL"}

\* Equal ignoring case and at most one trailing '/'.
SameButCaseAndSlash(a, b) ==
  \/ EqualFold(a, b)
  \/ EqualFold(Append(a, Slash), b)
  \/ EqualFold(a, Append(b, Slash))

\* The registered static patterns the normalized request path equals,
\* ignoring case and at most one trailing '/'.
StaticCandidates ==
  { r \in routes : /\ r.method = res.method
                   /\ IsStatic(r.path)
                   /\ SameButCaseAndSlash(CleanPath(res.path), r.path) }

\* The routes the request path or its normalized form matches, ignoring
\* case and at most one trailing '/'.
Candidates ==
  UNION { MatchingFold(res.method, q) :
            q \in {res.path, ToggleSlash(res.path), CleanPath(res.path),
                   ToggleSlash(CleanPath(res.path))} }

\* A request of a recoverable method, under default options, whose exact
\* lookup misses while its normalized form equals a registered static
\* pattern but for case and one trailing '/'.
RecoveryCase ==
  /\ IsMatching
  /\ DefaultOptions
  /\ res.method # Connect
  /\ Exact(res.method, res.path).value = NilValue
  /\ StaticCandidates # {}

FixedPath(method, path) ==
  findCaseInsensitivePath(IF object = "Router" THEN TreeOf(method) ELSE root,
                          CleanPath(path), redirectTrailingSlash)

\* C7: single redirect hop.  A Match or Pattern.MatchURL call terminates; if
\* the initial lookup misses it makes at most one recovery attempt, the
\* trailing-slash toggle (first choice, when the flag is set and the
\* redirect enabled) or else the normalize-plus-case-fix search, and
\* re-resolves the corrected path once: that re-resolution finds a value and
\* is the outcome, no further toggle or fix is applied to a corrected path.
C7_SingleHop ==
  (res.op \in {"Match", "MatchURL", "PatternMatchURL"} /\ res.panic = "none")
    => /\ res.hops <= 1
       /\ res.hops = 1 =>
            /\ res.flag
            /\ Exact(res.method, res.path).value = NilValue
            /\ LET tsr   == Exact(res.method, res.path).tsr
                   fixed == FixedPath(res.method, res.path)
                   to    == IF tsr /\ redirectTrailingSlash
                            THEN ToggleSlash(res.path) ELSE fixed.path
               IN /\ (tsr /\ redirectTrailingSlash)
                       \/ (redirectFixedPath /\ fixed.found)
                  /\ res.value = Unwrapped(Exact(res.method, to).value)
                  /\ res.value # NilValue

\* A Pattern.MatchURL call has returned after one case-fix re-resolution.
C7_Witness ==
  /\ res.op = "PatternMatchURL"
  /\ res.hops = 1
  /\ res.flag
  /\ ~Exact(res.method, res.path).tsr

\* ------------------------------------------------------------- claim C8
\* The exact lookup of the unmodified path decided the call.
ExactOnly ==
  /\ res.hops = 0
  /\ res.flag <=> Exact(res.method, res.path).value # NilValue
  /\ res.value = Unwrapped(Exact(res.method, res.path).value)

AddStep == res.op = "none" /\ res'.op \in {"Add", "PatternAdd"}

InputPanics == {"method", "path", "value"}

\* Length of the longest common prefix of two patterns.
CommonLen(p, q) ==
  CHOOSE k \in 0..Len(p) :
    /\ k <= Len(q)
    /\ SubSeq(p, 1, k) = SubSeq(q, 1, k)
    /\ k = Len(p) \/ k = Len(q) \/ p[k + 1] # q[k + 1]

\* The wildcard that starts at position i of a pattern, marker included.
WildcardAt(pat, i) == SubSeq(pat, i, i + SegmentEnd(From(pat, i + 1)))

\* Two patterns conflict in the ways the claim lists: they are identical;
\* or they declare differently named wildcards at one position; or one
\* declares a wildcard where the other has a static byte.
Conflicts(p, q) ==
  LET k == CommonLen(p, q)
  IN \/ p = q
     \/ \E i \in 1..k : p[i] \in {":", "*"} /\ WildcardAt(p, i) # WildcardAt(q, i)
     \/ k < Len(p) /\ k < Len(q) /\ (p[k + 1] \in {":", "*"} \/ q[k + 1] \in {":", "*"})

\* C9: conflict rejection.  Add and Pattern.Add panic, and register nothing,
\* when the new pattern is identical to a registered pattern of the same
\* method, declares a differently named parameter at a position where one is
\* registered, or declares a wildcard where a static segment is registered
\* or a static segment where a wildcard is, in either order of
\* registration; patterns under different methods never conflict.
C9_ConflictRejection ==
  [][ AddStep =>
        LET same == { r \in routes : r.method = res'.method }
        IN /\ (/\ res'.panic \notin InputPanics
               /\ \E r \in same : Conflicts(r.path, res'.path))
                => res'.panic = "conflict" /\ routes' = routes
           /\ res'.panic = "conflict" => same # {}
    ]_vars

\* An Add has panicked on a pattern that conflicts with a different pattern
\* of its method, with a route of the other method registered too.
C9_Witness ==
  /\ res.op = "Add"
  /\ res.panic = "conflict"
  /\ \E r \in routes : /\ r.method = res.method
                       /\ r.path # res.path
                       /\ Conflicts(r.path, res.path)
  /\ \E r \in routes : r.method # res.method

\* ------------------------------------------------------------ claim C10
\* The arguments of the call violate a precondition of Add / Pattern.Add.
InvalidInput(r) ==
  \/ r.op = "Add" /\ r.method = ""
  \/ r.path = <<>>
  \/ r.path # <<>> /\ Head(r.path) # Slash
  \/ r.arg = Nil

\* The route table: everything a Lookup, Match or MatchURL result is
\* computed from.
Table == <<trees, paramsNew, maxParams, root, options, routes>>

\* C10: invalid-input rejection.  Add panics when the method is empty, the
\* path is empty or does not start with '/', or the value is nil, and
\* Pattern.Add likewise on path and value; it panics on its arguments in no
\* other case; the panic leaves the route table exactly as it was, so every
\* later Lookup and Match, a function of the table and its arguments,
\* returns what it returned before.
C10_InvalidInput ==
  [][ AddStep =>
        /\ InvalidInput(res') <=> res'.panic \in InputPanics
        /\ InvalidInput(res') => UNCHANGED Table
    ]_vars

\* An Add with a nil value has panicked on a router that holds routes.
C10_Witness ==
  /\ res.op = "Add"
  /\ res.arg = Nil
  /\ res.panic = "value"
  /\ routes # {}

\* ------------------------------------------------------------ claim C11
\* The paths a returned Match call resolved: the request path itself when
\* no recovery was made, else its slash-toggled form or the path the
\* case-insensitive search returned.
ResolvedPaths ==
  IF res.hops = 0 THEN {res.path}
  ELSE {ToggleSlash(res.path), FixedPath(res.method, res.path).path}

\* A Match call has returned on a router built with
\* WithSaveMatchedRoutePath.
SaveModeMatch ==
  /\ res.op = "Match"
  /\ saveMatchedRoutePath

\* C11: save-matched-pattern mode.  On a router constructed with
\* WithSaveMatchedRoutePath, Router.Match never panics and succeeds on every
\* path a registered pattern matches; every successful Router.Match (direct
\* or after redirect recovery) that resolved to pattern P registered with
\* value V returns V itself, unwrapped, and a Params list made of the real
\* captures in order followed by exactly one final entry
\* (MatchedRoutePathParam, P); for a wildcard-free route the list is exactly
\* that single entry.
C11_SaveMode ==
  SaveModeMatch =>
    /\ res.panic = "none"
    /\ Matching(res.method, res.path) # {} => res.flag /\ res.hops = 0
    /\ res.flag =>
         \E r \in routes : \E q \in ResolvedPaths :
           LET m == RefMatch(r.path, q, FALSE)
           IN /\ r.method = res.method
              /\ m.ok
              /\ res.value = PlainValue(Handler(r.method, r.path))
              /\ res.params = Append(m.ps, Param(MatchedRoutePathParam, r.path))
              /\ IsStatic(r.path)
                   => res.params = <<Param(MatchedRoutePathParam, r.path)>>

\* A save-mode Match has returned, after one recovery hop, a capture
\* followed by the matched pattern.
C11_Witness ==
  /\ SaveModeMatch
  /\ res.flag
  /\ res.hops = 1
  /\ Len(res.params) = 2
  /\ res.params[1].Key # MatchedRoutePathParam
  /\ res.params[2].Key = MatchedRoutePathParam

\* ------------------------------------------------------------ claim C12
IsMatchCall == res.op \in {"Match", "MatchURL", "PatternMatchURL"}

\* Recovery applies to the call: not method CONNECT (a Pattern has no
\* method) and not the path "/".
Recovers ==
  /\ object = "Pattern" \/ res.method # Connect
  /\ res.path # <<Slash>>

\* The exact lookup the call's resolution ends on: that of the request
\* path, or else of the path the enabled recovery re-resolves; a miss when
\* the call matches nothing.
Resolution ==
  LET e     == Exact(res.method, res.path)
      fixed == FixedPath(res.method, res.path)
      miss  == [value |-> NilValue, params |-> <<>>, tsr |-> FALSE]
  IN IF e.value # NilValue THEN e
     ELSE IF ~Recovers THEN miss
     ELSE IF e.tsr /\ redirectTrailingSlash
     THEN Exact(res.method, ToggleSlash(res.path))
     ELSE IF redirectFixedPath /\ fixed.found
     THEN Exact(res.method, fixed.path)
     ELSE miss

\* The stored entry the resolution ends on; NilValue when there is none.
MatchedEntry == Resolution.value

\* C12: save-mode mismatch is fatal.  Router.Match, Router.MatchURL and
\* Pattern.MatchURL panic exactly when the save-matched-pattern mode is on
\* at match time and the route the call resolves to, directly or through a
\* recovery, was registered while the mode was off (its stored value is the
\* bare value, not a wrapped pair); a call that matches no route never
\* panics and returns no match, whatever routes are registered.
C12_ModeMismatch ==
  IsMatchCall =>
    /\ res.panic = "matchValue"
         <=> /\ saveMatchedRoutePath
             /\ MatchedEntry # NilValue
             /\ ~MatchedEntry.wrapped
    /\ res.panic = "matchValue"
         => \E r \in Candidates :
              MatchedEntry = PlainValue(Handler(r.method, r.path))
    /\ MatchedEntry = NilValue => res.panic = "none" /\ ~res.flag
    /\ (MatchedEntry # NilValue /\ res.panic = "none") => res.flag

\* A Pattern.MatchURL call has panicked on a route reached through a
\* recovery and registered before the mode was set, with a route registered
\* after it in the trie too.
C12_Witness ==
  /\ res.op = "PatternMatchURL"
  /\ res.panic = "matchValue"
  /\ Exact(res.method, res.path).value = NilValue
  /\ \E p \in Paths : /\ Exact(res.method, p).value # NilValue
                       /\ Exact(res.method, p).value.wrapped

\* ------------------------------------------------------------ claim C13
\* A call of Router.Add is made in the step.
RouterAddStep == res.op = "none" /\ res'.op = "Add"

\* A read call on the router has returned.
IsRouterRead == res.op \in {"Lookup", "Match", "MatchURL"}

\* The call returned nothing: nil value, nil params, false, no route path.
EmptyResult ==
  /\ res.panic = "none"
  /\ res.value = NilValue
  /\ res.params = <<>>
  /\ res.routePath = <<>>
  /\ ~res.flag

\* Match on the pattern string just registered through Any returns the
\* value given to Any, for each of the nine methods.
AnyAnswers ==
  \A k \in DOMAIN AnyMethods :
    LET m == match(AnyMethods[k], res.path, paramsNew, 0)
    IN /\ ~m.panic
       /\ m.matched
       /\ m.hops = 0
       /\ m.value = PlainValue(res.arg)

\* What Match and MatchURL return is made of the exact lookups in the
\* tree of the request's own method and of the options.
FromOwnLookups ==
  LET l == Resolution
  IN /\ res.flag <=> l.value # NilValue
     /\ res.flag => res.value = Unwrapped(l.value)
     /\ (res.op = "Match" /\ res.flag) =>
          res.params = IF saveMatchedRoutePath
                       THEN Append(l.params, Param(MatchedRoutePathParam,
                                                   l.value.matchedPath))
                       ELSE l.params

\* The paths whose exact lookup a request for path p of method m can use.
LookedUp(m, p) ==
  {p, ToggleSlash(p),
   findCaseInsensitivePath(TreeOf(m), CleanPath(p), redirectTrailingSlash).path}

\* C13: method independence.  Each method key has its own trie, created on
\* the first Add for that key and never removed; Add(m1, ...) leaves the
\* trie of every other method and the options as they were and, when it
\* installs the params allocator (the one other thing a lookup reads),
\* changes no exact lookup of a method m2 # m1; the results of Lookup, Match
\* and MatchURL for m2 are made of those lookups.  A request for a method
\* with no registrations returns (nil, nil, false); a successful
\* Any(path, v) makes Match(m, path) return v for each of GET, POST, PUT,
\* PATCH, HEAD, OPTIONS, DELETE, CONNECT and TRACE.
C13_MethodIndependence ==
  /\ [](/\ (IsRouterRead /\ \A r \in routes : r.method # res.method)
            => EmptyResult
        /\ (res.op \in {"Match", "MatchURL"} /\ res.panic = "none")
            => FromOwnLookups
        /\ (res.op = "Any" /\ res.panic = "none") => AnyAnswers)
  /\ [][ /\ DOMAIN trees \subseteq DOMAIN trees'
         /\ RouterAddStep =>
              /\ UNCHANGED options
              /\ res'.panic = "none" => res'.method \in DOMAIN trees'
              /\ \A m \in DOMAIN trees' \ {res'.method} :
                   m \in DOMAIN trees /\ trees'[m] = trees[m]
              /\ (res'.panic = "none" /\ paramsNew' # paramsNew) =>
                   \A m \in Methods \ {res'.method} :
                     \A q \in UNION { LookedUp(m, p) : p \in Paths } :
                       lookup(m, q)' = lookup(m, q)
       ]_vars

\* An Add has registered, under one method, a pattern that conflicts with a
\* pattern registered under the other.
C13_Witness ==
  /\ res.op = "Add"
  /\ res.panic = "none"
  /\ \E r \in routes : /\ r.method # res.method
                        /\ r.path # res.path
                        /\ Conflicts(r.path, res.path)

\* ------------------------------------------------------------ claim C14
\* The registered routes of a method.
RoutesOf(method) == { r \in routes : r.method = method }

\* The outcomes of inserting a set of routes into an empty trie, one per
\* order of insertion: the trie when every insertion of the order was
\* accepted, the accepted flag false as soon as one was not.
RECURSIVE Builds(_)
Builds(S) ==
  IF S = {} THEN { [ok |-> TRUE, n |-> NewNode] }
  ELSE UNION { { IF b.ok THEN addRoute(b.n, r.path, StoredFor(r)) ELSE b :
                   b \in Builds(S \ {r}) } : r \in S }

\* The trie in use for a method.
Trie(method) == IF object = "Router" THEN TreeOf(method) ELSE root

\* What a request resolves to on trie t: the exact lookup of the path, or
\* else that of the path the enabled recovery re-resolves.
ResolutionOn(t, method, path) ==
  LET e     == getValue(t, path, TRUE)
      fixed == findCaseInsensitivePath(t, CleanPath(path), redirectTrailingSlash)
      miss  == [value |-> NilValue, ps |-> <<>>, tsr |-> FALSE]
  IN IF e.value # NilValue THEN e
     ELSE IF (object = "Router" /\ method = Connect) \/ path = <<Slash>>
     THEN miss
     ELSE IF e.tsr /\ redirectTrailingSlash
     THEN getValue(t, ToggleSlash(path), TRUE)
     ELSE IF redirectFixedPath /\ fixed.found
     THEN getValue(t, fixed.path, TRUE)
     ELSE miss

Reads == {"Lookup", "Match", "MatchURL", "PatternMatchURL"}

\* A read call is made in the step.
ReadStep == res.op = "none" /\ res'.op \in Reads

\* The same call made again, on the state the call left, returns what the
\* call returned.
SameAgain ==
  /\ res.op = "Lookup" =>
       LET l == lookup(res.method, res.path)
       IN res.value = l.value /\ res.params = l.params /\ res.flag = l.tsr
  /\ res.op = "Match" =>
       LET m == match(res.method, res.path, paramsNew, 0)
       IN IF m.panic THEN res.panic = "matchValue"
          ELSE /\ res.panic = "none"
               /\ res.value = m.value
               /\ res.params = m.params
               /\ res.flag = m.matched
  /\ res.op = "MatchURL" =>
       LET m == match(res.method, res.path, FALSE, 0)
       IN IF m.panic THEN res.panic = "matchValue"
          ELSE /\ res.panic = "none"
               /\ res.value = m.value
               /\ res.routePath = MatchedRoutePath(m.params)
               /\ res.flag = m.matched
  /\ res.op = "PatternMatchURL" =>
       LET m == patternMatchURL(res.path, 0)
       IN IF m.panic THEN res.panic = "matchValue"
          ELSE /\ res.panic = "none"
               /\ res.value = m.value
               /\ res.routePath = m.routePath
               /\ res.flag = m.matched

C16_LookupValue ==
  IsLookup =>
    /\ res.value # NilValue =>
         /\ \E r \in Matching(res.method, res.path) :
              /\ res.value = PlainValue(Handler(r.method, r.path))
              /\ res.params = RefMatch(r.path, res.path, FALSE).ps
         /\ res.value = match(res.method, res.path, paramsNew, 0).value
    /\ res.value = NilValue =>
         /\ res.params = <<>>
         /\ Matching(res.method, res.path) = {}

\* ------------------------------------------------------------ claim C17
\* A MatchURL call of a router or a pattern has returned.
IsMatchURL == res.op \in {"MatchURL", "PatternMatchURL"} /\ res.panic = "none"

\* C17: matched route path from MatchURL.  On a successful match, direct or
\* after redirect recovery, for any registered pattern and parameter names,
\* Router.MatchURL and Pattern.MatchURL return as second result the pattern
\* the matched route was registered with when the save-matched-pattern mode
\* was enabled at construction, and the empty string when it is disabled;
\* on no match they return (nil, "", false).
C17_RoutePath ==
  IsMatchURL =>
    /\ (res.flag /\ saveMatchedRoutePath) =>
         \E r \in RoutesOf(res.method) : \E q \in ResolvedPaths :
           /\ RefMatch(r.path, q, FALSE).ok
           /\ res.value = PlainValue(Handler(r.method, r.path))
           /\ res.routePath = r.path
    /\ (res.flag /\ ~saveMatchedRoutePath) => res.routePath = <<>>
    /\ ~res.flag => res.value = NilValue /\ res.routePath = <<>>

\* ------------------------------------------------------------ claim C18
\* The entries a match of pattern pat can return: one per wildcard, and the
\* matched-route-path entry in save mode.
Entries(pat) == countParams(pat) + IF saveMatchedRoutePath THEN 1 ELSE 0

\* The maximum of Entries over the registered patterns of all methods.
Capacity ==
  IF routes = {} THEN 0
  ELSE LET r == CHOOSE x \in routes :
                  \A y \in routes : Entries(y.path) <= Entries(x.path)
       IN Entries(r.path)

\* C18: parameter-capacity invariant.  After any sequence of successful
\* Router.Add calls, maxParams is the maximum over all registered patterns
\* of all methods of the pattern's wildcard count (plus one in save mode),
\* it never decreases, and paramsNew is non-nil iff maxParams > 0; the
\* Params list returned by a Match or a Lookup, the synthetic entry
\* included, never has more than maxParams entries.
C18_ParamCapacity ==
  /\ [](object = "Router" =>
          /\ maxParams = Capacity
          /\ paramsNew <=> maxParams > 0
          /\ res.op \in {"Lookup", "Match"} => Len(res.params) <= maxParams)
  /\ [][maxParams' >= maxParams]_vars

\* A save-mode Match has returned as many entries as maxParams allows, two
\* captures and the matched route path, with routes under both methods.
C18_Witness ==
  /\ res.op = "Match"
  /\ saveMatchedRoutePath
  /\ Len(res.params) = 3
  /\ maxParams = 3
  /\ \E r \in routes : r.method # res.method

====
